---- MODULE Spec2Model ----
(***************************************************************************)
(* The list filter of snippets/collapsible_section/res/collapsiblesection.js *)
(* (the plain-DOM variant): one filter container, its filter parts and     *)
(* their controls, the target list, the URL fragment and the session       *)
(* history.  Strings are sequences of one-character strings, so that the   *)
(* regular expressions of the source are matched position by position.     *)
(***************************************************************************)
EXTENDS Integers, Sequences, FiniteSets, TLC

VARIABLES
    parts,            \* markup: the filter parts of the container, in document order
    joinAttr,         \* markup: the container's data-filter-join attribute
    list,             \* markup: the child nodes of the target list
    pushStateAvail,   \* whether history.pushState exists
    hist,             \* the session history: the fragment of each entry
    idx,              \* the current history entry (location.hash = hist[idx])
    currentFilter,    \* setupFilter's currentFilter object, in insertion order
    checked,          \* checked[p][c]: the checked/selected property of control c of part p
    hidden,           \* hidden[i]: whether child node i of the list has the 'hidden' attribute
    containerHidden,  \* whether the filter container has the 'hidden' attribute
    pc,               \* where the page (or the function under test) is
    ev,               \* the last event handled: [op, part, streak]
    secs,             \* the collapsible sections of the page, in document order
    conts             \* the filter containers of a page that has several

vars == <<parts, joinAttr, list, pushStateAvail, hist, idx, currentFilter,
          checked, hidden, containerHidden, pc, ev, secs, conts>>

markup == <<parts, joinAttr, list, pushStateAvail>>

(***************************************************************************)
(* Bounds of the model.                                                    *)
(***************************************************************************)
MaxHist == 4      \* history entries kept
MaxItems == 2     \* child nodes of a list drawn for the filter application
MaxFragLen == 4   \* characters after '#!' in a fragment drawn for the URL functions
MaxSecs == 2      \* collapsible sections on a page
MaxClassLen == 9  \* length of a class string that setCollapseState is still called on

(***************************************************************************)
(* Strings.                                                                *)
(***************************************************************************)
Null == <<"null">>          \* JavaScript null: no string of the model equals it
Empty == <<>>               \* ''
Star == <<"*">>             \* '*'
HashBang == <<"#", "!">>    \* '#!'

Min(S) == CHOOSE x \in S : \A y \in S : x <= y

\* p occurs in s at position i
OccursAt(s, p, i) ==
    /\ i >= 1
    /\ i + Len(p) - 1 <= Len(s)
    /\ \A j \in 1..Len(p) : s[i + j - 1] = p[j]

\* the position after the longest run of characters other than ';' that starts at from
RunEnd(s, from) ==
    Min({j \in from..(Len(s) + 1) : j = Len(s) + 1 \/ s[j] = ";"})

(***************************************************************************)
(* The filter object: its own enumerable properties in insertion order.    *)
(***************************************************************************)
FilterKeys(filter) == {filter[i].k : i \in 1..Len(filter)}

FilterHas(filter, key) == \E i \in 1..Len(filter) : filter[i].k = key

\* filter[key]
FilterGet(filter, key) ==
    IF FilterHas(filter, key)
    THEN filter[CHOOSE i \in 1..Len(filter) : filter[i].k = key].v
    ELSE Null

\* filter[key] = value
FilterSet(filter, key, value) ==
    IF FilterHas(filter, key)
    THEN [i \in 1..Len(filter) |->
            IF filter[i].k = key THEN [k |-> key, v |-> value] ELSE filter[i]]
    ELSE Append(filter, [k |-> key, v |-> value])

(***************************************************************************)
(* updateListFromFilter.                                                   *)
(***************************************************************************)
\* item.getAttribute('data-filter-' + key)
ItemValue(item, key) ==
    IF key \in DOMAIN item.attrs THEN item.attrs[key] ELSE Null

\* the condition of the 'or' branch
OrMatchNoWildcard(itemValue, wantedValue) ==
    itemValue = wantedValue

OrMatch(itemValue, wantedValue) ==
    itemValue = wantedValue \/ wantedValue = Star

\* the condition of the other branch
AndMismatchNoWildcard(itemValue, wantedValue) ==
    itemValue # wantedValue

AndMismatch(itemValue, wantedValue) ==
    itemValue # wantedValue /\ wantedValue # Star

\* the for (key in filter) loop from entry i on, with its breaks
RECURSIVE ShouldShowFrom(_, _, _, _, _)
ShouldShowFrom(item, filter, joinType, i, shouldShow) ==
    IF i > Len(filter) THEN shouldShow
    ELSE LET wantedValue == filter[i].v
             itemValue == ItemValue(item, filter[i].k)
         IN  IF joinType = "or"
             THEN IF OrMatch(itemValue, wantedValue)
                  THEN TRUE
                  ELSE ShouldShowFrom(item, filter, joinType, i + 1, shouldShow)
             ELSE IF AndMismatch(itemValue, wantedValue)
                  THEN FALSE
                  ELSE ShouldShowFrom(item, filter, joinType, i + 1, shouldShow)

ShouldShowInitTrue(item, filter, joinType) ==
    ShouldShowFrom(item, filter, joinType, 1, TRUE)

ShouldShow(item, filter, joinType) ==
    ShouldShowFrom(item, filter, joinType, 1, joinType # "or")

\* the 'hidden' attributes of the list's child nodes after the call
updateListFromFilter(children, hid, filter, joinType) ==
    [i \in 1..Len(children) |->
        IF children[i].element
        THEN ~ShouldShow(children[i], filter, joinType)
        ELSE hid[i]]

(***************************************************************************)
(* Inputs of the filter application.                                       *)
(***************************************************************************)
KeyA == <<"a">>
KeyB == <<"b">>
KeyBA == <<"b", "a">>
ValX == <<"x">>
ValY == <<"y">>

TextNode == [element |-> FALSE, attrs |-> <<>>]

Element(attrs) == [element |-> TRUE, attrs |-> attrs]

\* attribute maps over a set of keys: each key absent or with one of the values
AttrMaps(keys, values) ==
    UNION {[ks -> values] : ks \in SUBSET keys}

ListNodes ==
    {TextNode} \cup {Element(m) : m \in AttrMaps({KeyA, KeyB}, {Empty, ValX})}

SeqsUpTo(S, n) == UNION {[1..m -> S] : m \in 0..n}

FilterValues == {Star, Empty, ValX}

\* filter objects over the keys a and b, in either insertion order
FilterObjects ==
    {f \in SeqsUpTo([k : {KeyA, KeyB}, v : FilterValues], 2) :
        \A i, j \in 1..Len(f) : i # j => f[i].k # f[j].k}

JoinTypes == {"or", "and", "absent"}

NoEvent == [op |-> "none", part |-> 0, streak |-> 0]

InitList ==
    /\ parts = <<>>
    /\ joinAttr \in JoinTypes
    /\ list \in SeqsUpTo(ListNodes, MaxItems)
    /\ pushStateAvail = TRUE
    /\ hist = <<Empty>>
    /\ idx = 1
    /\ currentFilter \in FilterObjects
    /\ checked = <<>>
    /\ hidden \in {[i \in 1..Len(list) |-> b] : b \in BOOLEAN}
    /\ containerHidden = FALSE
    /\ pc = "input"
    /\ ev = NoEvent
    /\ secs = <<>>
    /\ conts = <<>>

\* updateListFromFilter(list, filter, joinType) on the drawn input
ApplyFilter ==
    /\ pc = "input"
    /\ hidden' = updateListFromFilter(list, hidden, currentFilter, joinAttr)
    /\ pc' = "applied"
    /\ UNCHANGED <<markup, hist, idx, currentFilter, checked, containerHidden, ev, secs, conts>>

NextList == ApplyFilter

SpecList == InitList /\ [][NextList]_vars

(***************************************************************************)
(* The URL fragment: updateFilterPartFromUrl and updateUrlFromFilterPart.  *)
(* Keys are made of letters, so a key stands for itself in a pattern.      *)
(***************************************************************************)
\* location.hash.match(/^#!(.+)/): the captured group, or Null
FilterInUrl(hash) ==
    IF Len(hash) >= 3 /\ OccursAt(hash, HashBang, 1)
    THEN SubSeq(hash, 3, Len(hash))
    ELSE Null

\* location.hash.match(/#!(.+)/): the captured group of the leftmost match, or Null
ExistingFilter(hash) ==
    LET starts == {i \in 1..Len(hash) : OccursAt(hash, HashBang, i) /\ i + 2 <= Len(hash)}
    IN  IF starts = {} THEN Null
        ELSE SubSeq(hash, Min(starts) + 2, Len(hash))

\* where '(?:^|;)' + key + '=([^;]+)' matches in s: the positions of the key
ValueMatches(s, key) ==
    {p \in 1..Len(s) :
        /\ p = 1 \/ s[p - 1] = ";"
        /\ OccursAt(s, key \o <<"=">>, p)
        /\ p + Len(key) + 1 <= Len(s)
        /\ s[p + Len(key) + 1] # ";"}

\* the value updateFilterPartFromUrl assigns to filter[key]
NewFilterValue(hash, key, defaultValue) ==
    LET filterInUrl == FilterInUrl(hash)
    IN  IF filterInUrl = Null THEN defaultValue
        ELSE LET found == ValueMatches(filterInUrl, key)
             IN  IF found = {} THEN defaultValue
                 ELSE LET from == Min(found) + Len(key) + 1
                      IN  SubSeq(filterInUrl, from, RunEnd(filterInUrl, from) - 1)

updateFilterPartFromUrl(filter, key, defaultValue, hash) ==
    FilterSet(filter, key, NewFilterValue(hash, key, defaultValue))

\* where new RegExp('(' + key + '=[^;]*)') matches in s
PartMatches(s, key) ==
    {p \in 1..Len(s) : OccursAt(s, key \o <<"=">>, p)}

\* the fragment updateUrlFromFilterPart hands to history.pushState
NewFragment(filter, key, hash) ==
    LET existingFilter == ExistingFilter(hash)
        newFilterPart == key \o <<"=">> \o FilterGet(filter, key)
        withExisting == IF existingFilter # Null
                        THEN HashBang \o existingFilter
                        ELSE HashBang
        found == PartMatches(withExisting, key)
    IN  IF found # {}
        THEN LET p == Min(found)
                 q == RunEnd(withExisting, p + Len(key) + 1)
             IN  SubSeq(withExisting, 1, p - 1) \o newFilterPart
                     \o SubSeq(withExisting, q, Len(withExisting))
        ELSE IF existingFilter # Null
             THEN withExisting \o <<";">> \o newFilterPart
             ELSE withExisting \o newFilterPart

\* history.pushState(state, title, fragment): the entries after the current
\* one are dropped and the new entry becomes the current one
PushState(h, i, fragment) ==
    <<Append(SubSeq(h, 1, i), fragment), i + 1>>

\* a variant that calls history.pushState without testing for it
updateUrlFromFilterPartUntested(filter, key, h, i, avail) ==
    PushState(h, i, NewFragment(filter, key, h[i]))

\* the history and the current entry after updateUrlFromFilterPart
updateUrlFromFilterPart(filter, key, h, i, avail) ==
    IF avail THEN PushState(h, i, NewFragment(filter, key, h[i])) ELSE <<h, i>>

(***************************************************************************)
(* Inputs of the URL functions.                                            *)
(***************************************************************************)
UrlChars == {"a", "b", "=", ";"}

UrlHashes ==
    {Empty, <<"#", "b">>} \cup {HashBang \o s : s \in SeqsUpTo(UrlChars, MaxFragLen)}

UrlKeys == {KeyA, KeyB, KeyBA}

UrlValues == {Empty, Star, <<"b">>, <<"a", "=", "b">>, <<"b", ";", "b">>}

UrlDefaults == {Star, Empty, <<"b">>}

Part(name, hasDefault, default, controls) ==
    [name |-> name, hasDefault |-> hasDefault, default |-> default, controls |-> controls]

InitUrl ==
    /\ \E key \in UrlKeys, value \in UrlValues, d \in UrlDefaults :
          /\ parts = <<Part(key, TRUE, d, <<>>)>>
          /\ currentFilter = <<[k |-> key, v |-> value]>>
    /\ joinAttr = "absent"
    /\ list = <<>>
    /\ pushStateAvail \in BOOLEAN
    /\ \E hash \in UrlHashes : hist = <<hash>>
    /\ idx = 1
    /\ checked = <<>>
    /\ hidden = <<>>
    /\ containerHidden = FALSE
    /\ pc = "input"
    /\ ev = NoEvent
    /\ secs = <<>>
    /\ conts = <<>>

\* updateUrlFromFilterPart(filter, key) on the drawn input
EncodeUrl ==
    /\ pc = "input"
    /\ LET r == updateUrlFromFilterPart(currentFilter, parts[1].name, hist, idx,
                                       pushStateAvail)
       IN  hist' = r[1] /\ idx' = r[2]
    /\ pc' = "encoded"
    /\ UNCHANGED <<markup, currentFilter, checked, hidden, containerHidden, ev, secs, conts>>

\* updateFilterPartFromUrl(filter, key, defaultValue) on the fragment written
DecodeUrl ==
    /\ pc = "encoded"
    /\ currentFilter' = updateFilterPartFromUrl(currentFilter, parts[1].name,
                                                parts[1].default, hist[idx])
    /\ pc' = "decoded"
    /\ UNCHANGED <<markup, hist, idx, checked, hidden, containerHidden, ev, secs, conts>>

NextUrl == EncodeUrl \/ DecodeUrl

SpecUrl == InitUrl /\ [][NextUrl]_vars

(***************************************************************************)
(* The filter parts and their controls.                                    *)
(***************************************************************************)
\* a control: its tagName and type, data-filter, and data-filter-off if it has one
Control(tag, type, filter, hasOff, off) ==
    [tag |-> tag, type |-> type, filter |-> filter, hasOff |-> hasOff, off |-> off]

Checkbox(filter, hasOff, off) == Control("INPUT", "checkbox", filter, hasOff, off)

Radio(filter) == Control("INPUT", "radio", filter, FALSE, Empty)

Option(filter) == Control("OPTION", "option", filter, FALSE, Empty)

\* whether control c counts as on: checked for an INPUT, selected for an OPTION
\* (chk[c] is the property the control's tag has)
IsOn(control, on) ==
    (control.tag = "INPUT" /\ on) \/ (control.tag = "OPTION" /\ on)

\* the forEach of updateFilterPartFromControls from control c on
RECURSIVE ControlsValueFrom(_, _, _, _)
ControlsValueFrom(controls, chk, c, value) ==
    IF c > Len(controls) THEN value
    ELSE IF IsOn(controls[c], chk[c])
         THEN ControlsValueFrom(controls, chk, c + 1, controls[c].filter)
         ELSE IF controls[c].tag = "INPUT" /\ ~chk[c] /\ controls[c].hasOff
              THEN ControlsValueFrom(controls, chk, c + 1, controls[c].off)
              ELSE ControlsValueFrom(controls, chk, c + 1, value)

\* a variant that deletes the key when no control gives it a value
updateFilterPartFromControlsDropping(filter, key, controls, chk) ==
    IF ControlsValueFrom(controls, chk, 1, Null) = Null
    THEN SelectSeq(filter, LAMBDA e : e.k # key)
    ELSE FilterSet(filter, key, ControlsValueFrom(controls, chk, 1, Empty))

updateFilterPartFromControls(filter, key, controls, chk) ==
    FilterSet(filter, key, ControlsValueFrom(controls, chk, 1, Empty))

\* the checked/selected properties of the controls after the call
updateControlsFromFilterPart(controls, filter, key) ==
    [c \in 1..Len(controls) |-> controls[c].filter = FilterGet(filter, key)]

\* setupFilterPart's defaultValue
DefaultValue(filterPart) ==
    IF filterPart.hasDefault THEN filterPart.default ELSE Star

\* setupFilter's joinType
JoinType(attr) == IF attr = "or" THEN "or" ELSE "and"

\* setupFilterPart for the parts from p on: the filter and the controls after it
RECURSIVE SetupPartsFrom(_, _, _, _, _)
SetupPartsFrom(ps, hash, p, filter, chk) ==
    IF p > Len(ps) THEN [filter |-> filter, checked |-> chk]
    ELSE LET filterName == ps[p].name
             withDefault == FilterSet(filter, filterName, DefaultValue(ps[p]))
             fromUrl == updateFilterPartFromUrl(withDefault, filterName,
                                                DefaultValue(ps[p]), hash)
             controls == updateControlsFromFilterPart(ps[p].controls, fromUrl, filterName)
         IN  SetupPartsFrom(ps, hash, p + 1, fromUrl, [chk EXCEPT ![p] = controls])

\* the popstate listeners of the parts from p on, in the order they were added
RECURSIVE PopstateFrom(_, _, _, _, _, _, _, _)
PopstateFrom(ps, children, joinType, hash, p, filter, chk, hid) ==
    IF p > Len(ps) THEN [filter |-> filter, checked |-> chk, hidden |-> hid]
    ELSE LET filterName == ps[p].name
             fromUrl == updateFilterPartFromUrl(filter, filterName,
                                                DefaultValue(ps[p]), hash)
             controls == updateControlsFromFilterPart(ps[p].controls, fromUrl, filterName)
         IN  PopstateFrom(ps, children, joinType, hash, p + 1, fromUrl,
                          [chk EXCEPT ![p] = controls],
                          updateListFromFilter(children, hid, fromUrl, joinType))

(***************************************************************************)
(* The pages the model is run on.                                          *)
(***************************************************************************)
\* one checkbox without data-filter-off, checked by default
PartA1 == Part(KeyA, TRUE, ValX, <<Checkbox(ValX, FALSE, Empty)>>)

\* two radio buttons
PartA2 == Part(KeyA, FALSE, Empty, <<Radio(ValX), Radio(ValY)>>)

\* a select with a wildcard option
PartB == Part(KeyB, FALSE, Empty, <<Option(Star), Option(ValY)>>)

\* two checkboxes with data-filter-off="*"
PartBA == Part(KeyBA, FALSE, Empty, <<Checkbox(ValX, TRUE, Star), Checkbox(ValY, TRUE, Star)>>)

PageParts == {<<PartA1, PartB>>, <<PartA2, PartBA>>, <<PartB>>}

PageList ==
    <<Element((KeyA :> ValX) @@ (KeyB :> ValY)),
      TextNode,
      Element((KeyA :> ValY) @@ (KeyBA :> ValX))>>

\* the fragment the page is loaded with
PageHashes ==
    {Empty,
     <<"#", "!", "a", "=">>,
     <<"#", "!", "a", "=", "y", ";", "b", "=", "y">>,
     <<"#", "!", "b", "a", "=", "x">>}

Init ==
    /\ parts \in PageParts
    /\ joinAttr \in JoinTypes
    /\ list = PageList
    /\ pushStateAvail \in BOOLEAN
    /\ \E hash \in PageHashes : hist = <<hash>>
    /\ idx = 1
    /\ currentFilter = <<>>
    /\ checked \in {chk \in [1..Len(parts) -> SeqsUpTo(BOOLEAN, 2)] :
                       \A p \in 1..Len(parts) : Len(chk[p]) = Len(parts[p].controls)}
    /\ hidden = [i \in 1..Len(list) |-> FALSE]
    /\ containerHidden \in BOOLEAN
    /\ pc = "load"
    /\ ev = [op |-> "none", part |-> 0, streak |-> 0,
             mem |-> <<[byChange |-> FALSE, filter |-> <<>>]>>]
    /\ secs = <<>>
    /\ conts = <<>>

\* setupFilter(filterContainer), run when the script is loaded
Setup ==
    /\ pc = "load"
    /\ LET r == SetupPartsFrom(parts, hist[idx], 1, currentFilter, checked)
       IN  /\ currentFilter' = r.filter
           /\ checked' = r.checked
           /\ hidden' = updateListFromFilter(list, hidden, r.filter, JoinType(joinAttr))
    /\ containerHidden' = IF Len(parts) > 0 THEN FALSE ELSE containerHidden
    /\ pc' = "ready"
    /\ ev' = [op |-> "setup", part |-> 0, streak |-> 0, mem |-> ev.mem]
    /\ UNCHANGED <<markup, hist, idx, secs, conts>>

\* the controls of a part after the user acts on control c: a checkbox is
\* toggled; a radio button or an option is turned on and turns off the
\* other controls of its type in the part
UserChange(controls, chk, c) ==
    [d \in 1..Len(controls) |->
        IF d = c THEN ~chk[c]
        ELSE IF controls[c].type # "checkbox" /\ controls[d].type = controls[c].type
             THEN FALSE
             ELSE chk[d]]

\* a variant of the change listener that filters the list before it reads
\* the controls
ChangeListFirst(p, c) ==
    /\ pc = "ready"
    /\ parts[p].controls[c].type = "checkbox" \/ ~checked[p][c]
    /\ pushStateAvail => idx < MaxHist
    /\ LET chk == UserChange(parts[p].controls, checked[p], c)
           filter == updateFilterPartFromControls(currentFilter, parts[p].name,
                                                   parts[p].controls, chk)
           url == updateUrlFromFilterPart(filter, parts[p].name, hist, idx,
                                          pushStateAvail)
       IN  /\ currentFilter' = filter
           /\ hist' = url[1]
           /\ idx' = url[2]
           /\ hidden' = updateListFromFilter(list, hidden, currentFilter,
                                             JoinType(joinAttr))
           /\ checked' = [checked EXCEPT ![p] = chk]
    /\ ev' = [op |-> "change", part |-> p,
              streak |-> IF ev.op = "change" /\ ev.streak >= 1 THEN 2 ELSE 1,
              mem |-> IF pushStateAvail
                      THEN Append(SubSeq(ev.mem, 1, idx),
                                  [byChange |-> TRUE, filter |-> currentFilter'])
                      ELSE ev.mem]
    /\ UNCHANGED <<markup, containerHidden, pc, secs, conts>>

\* the user acts on control c of part p and the part's change listener runs
Change(p, c) ==
    /\ pc = "ready"
    /\ parts[p].controls[c].type = "checkbox" \/ ~checked[p][c]
    /\ pushStateAvail => idx < MaxHist
    /\ LET chk == UserChange(parts[p].controls, checked[p], c)
           filter == updateFilterPartFromControls(currentFilter, parts[p].name,
                                                   parts[p].controls, chk)
           url == updateUrlFromFilterPart(filter, parts[p].name, hist, idx,
                                          pushStateAvail)
       IN  /\ currentFilter' = filter
           /\ hist' = url[1]
           /\ idx' = url[2]
           /\ hidden' = updateListFromFilter(list, hidden, filter, JoinType(joinAttr))
           /\ checked' = [checked EXCEPT ![p] = chk]
    /\ ev' = [op |-> "change", part |-> p,
              streak |-> IF ev.op = "change" /\ ev.streak >= 1 THEN 2 ELSE 1,
              mem |-> IF pushStateAvail
                      THEN Append(SubSeq(ev.mem, 1, idx),
                                  [byChange |-> TRUE, filter |-> currentFilter'])
                      ELSE ev.mem]
    /\ UNCHANGED <<markup, containerHidden, pc, secs, conts>>

\* the popstate listeners run on the fragment of the entry that became current
Popstate(entry, op) ==
    /\ LET r == PopstateFrom(parts, list, JoinType(joinAttr), hist[entry], 1,
                             currentFilter, checked, hidden)
       IN  /\ currentFilter' = r.filter
           /\ checked' = r.checked
           /\ hidden' = r.hidden
    /\ idx' = entry
    /\ ev' = [op |-> op, part |-> 0,
              streak |-> IF op = "back" /\ ev.op = "change" THEN ev.streak ELSE 0,
              mem |-> ev.mem]
    /\ UNCHANGED <<markup, hist, containerHidden, pc, secs, conts>>

\* the user navigates back
Back ==
    /\ pc = "ready"
    /\ idx > 1
    /\ Popstate(idx - 1, "back")

\* the user navigates forward
Forward ==
    /\ pc = "ready"
    /\ idx < Len(hist)
    /\ Popstate(idx + 1, "forward")

Next ==
    \/ Setup
    \/ \E p \in 1..Len(parts) : \E c \in 1..Len(parts[p].controls) : Change(p, c)
    \/ Back
    \/ Forward

Spec == Init /\ [][Next]_vars

(***************************************************************************)
(* A page with two filter containers (the forEach over '._js-filter').     *)
(* The containers share the location and the history; each call of         *)
(* setupFilter has its own list, currentFilter and listeners.              *)
(***************************************************************************)
oneVars == <<parts, joinAttr, list, currentFilter, checked, hidden, containerHidden, secs>>

\* a filter container in the markup; ~found: getElementById(listId) is null
FilterContainer(filterParts, join, found, children) ==
    [parts |-> filterParts, joinAttr |-> join, found |-> found,
     list |-> IF found THEN children ELSE <<>>,
     currentFilter |-> <<>>,
     checked |-> [p \in 1..Len(filterParts) |->
                    [c \in 1..Len(filterParts[p].controls) |-> FALSE]],
     hidden |-> IF found THEN [i \in 1..Len(children) |-> FALSE] ELSE <<>>,
     containerHidden |-> TRUE,
     listening |-> FALSE]

\* setupFilter(filterContainer): the container after it, and whether it
\* threw (list.childNodes of a null list is a TypeError, after every part
\* has been set up)
setupFilter(cont, hash) ==
    LET r == SetupPartsFrom(cont.parts, hash, 1, <<>>, cont.checked)
        after == [cont EXCEPT !.currentFilter = r.filter,
                              !.checked = r.checked,
                              !.listening = Len(cont.parts) > 0,
                              !.containerHidden = IF Len(cont.parts) > 0 THEN FALSE ELSE @]
    IN  IF ~cont.found THEN [cont |-> after, threw |-> TRUE]
        ELSE [cont |-> [after EXCEPT !.hidden =
                            updateListFromFilter(cont.list, cont.hidden, r.filter,
                                                 JoinType(cont.joinAttr))],
              threw |-> FALSE]

\* the forEach over the containers from container k on: an exception ends it
RECURSIVE SetupFiltersFrom(_, _, _)
SetupFiltersFrom(cs, hash, k) ==
    IF k > Len(cs) THEN [conts |-> cs, threwAt |-> 0]
    ELSE LET r == setupFilter(cs[k], hash)
         IN  IF r.threw
             THEN [conts |-> [cs EXCEPT ![k] = r.cont], threwAt |-> k]
             ELSE SetupFiltersFrom([cs EXCEPT ![k] = r.cont], hash, k + 1)

\* the change listener of part p of a container, after the user acted on
\* control c: the container, the history and the position in it
changeListener(cont, p, c, h, i, avail) ==
    LET chk == UserChange(cont.parts[p].controls, cont.checked[p], c)
        filter == updateFilterPartFromControls(cont.currentFilter, cont.parts[p].name,
                                               cont.parts[p].controls, chk)
        url == updateUrlFromFilterPart(filter, cont.parts[p].name, h, i, avail)
    IN  [cont |-> [cont EXCEPT
                      !.currentFilter = filter,
                      !.checked[p] = chk,
                      !.hidden = IF cont.found
                                 THEN updateListFromFilter(cont.list, @, filter,
                                                           JoinType(cont.joinAttr))
                                 ELSE @],
         hist |-> url[1], idx |-> url[2]]

\* the popstate listeners of a container
popstateListeners(cont, hash) ==
    IF ~cont.listening THEN cont
    ELSE LET r == PopstateFrom(cont.parts, cont.list, JoinType(cont.joinAttr), hash, 1,
                               cont.currentFilter, cont.checked, cont.hidden)
         IN  [cont EXCEPT !.currentFilter = r.filter,
                          !.checked = r.checked,
                          !.hidden = IF cont.found THEN r.hidden ELSE @]

\* the first container filters on key a, the second on key b or on key ba
InitTwo ==
    /\ parts = <<>>
    /\ joinAttr = "absent"
    /\ list = <<>>
    /\ currentFilter = <<>>
    /\ checked = <<>>
    /\ hidden = <<>>
    /\ containerHidden = FALSE
    /\ secs = <<>>
    /\ pushStateAvail \in BOOLEAN
    /\ \E hash \in PageHashes : hist = <<hash>>
    /\ idx = 1
    /\ \E p1 \in {<<PartA1>>, <<PartA2>>}, p2 \in {<<PartB>>, <<PartBA>>},
          j1 \in {"absent", "or"}, f1 \in BOOLEAN, f2 \in BOOLEAN :
            conts = <<FilterContainer(p1, j1, f1, PageList),
                      FilterContainer(p2, "absent", f2, PageList)>>
    /\ pc = "load"
    /\ ev = [op |-> "none", part |-> 0, streak |-> 0, cont |-> 0]

\* the script runs: setupFilter for every container in turn
RunFilters ==
    /\ pc = "load"
    /\ LET r == SetupFiltersFrom(conts, hist[idx], 1)
       IN  /\ conts' = r.conts
           /\ ev' = [op |-> "script", part |-> 0, streak |-> 0, cont |-> r.threwAt]
    /\ pc' = "ready"
    /\ UNCHANGED <<oneVars, pushStateAvail, hist, idx>>

\* a variant of the change event that writes the new value into the filter
\* of every container
ChangeInAll(k, p, c) ==
    /\ pc = "ready"
    /\ conts[k].listening
    /\ conts[k].parts[p].controls[c].type = "checkbox" \/ ~conts[k].checked[p][c]
    /\ pushStateAvail => idx < MaxHist
    /\ LET r == changeListener(conts[k], p, c, hist, idx, pushStateAvail)
           key == conts[k].parts[p].name
       IN  /\ conts' = [j \in 1..Len(conts) |->
                          IF j = k THEN r.cont
                          ELSE [conts[j] EXCEPT !.currentFilter =
                                    FilterSet(@, key, FilterGet(r.cont.currentFilter, key))]]
           /\ hist' = r.hist
           /\ idx' = r.idx
    /\ ev' = [op |-> "change", part |-> p, streak |-> 0, cont |-> k]
    /\ UNCHANGED <<oneVars, pushStateAvail, pc>>

\* the user acts on control c of part p of container k
ChangeIn(k, p, c) ==
    /\ pc = "ready"
    /\ conts[k].listening
    /\ conts[k].parts[p].controls[c].type = "checkbox" \/ ~conts[k].checked[p][c]
    /\ pushStateAvail => idx < MaxHist
    /\ LET r == changeListener(conts[k], p, c, hist, idx, pushStateAvail)
       IN  /\ conts' = [conts EXCEPT ![k] = r.cont]
           /\ hist' = r.hist
           /\ idx' = r.idx
    /\ ev' = [op |-> "change", part |-> p, streak |-> 0, cont |-> k]
    /\ UNCHANGED <<oneVars, pushStateAvail, pc>>

\* the user navigates to a history entry: every popstate listener runs
PopstateTwo(entry, op) ==
    /\ pc = "ready"
    /\ entry \in 1..Len(hist)
    /\ conts' = [k \in 1..Len(conts) |-> popstateListeners(conts[k], hist[entry])]
    /\ idx' = entry
    /\ ev' = [op |-> op, part |-> 0, streak |-> 0, cont |-> 0]
    /\ UNCHANGED <<oneVars, pushStateAvail, hist, pc>>

NextTwo ==
    \/ RunFilters
    \/ \E k \in 1..Len(conts) : \E p \in 1..Len(conts[k].parts) :
         \E c \in 1..Len(conts[k].parts[p].controls) : ChangeIn(k, p, c)
    \/ PopstateTwo(idx - 1, "back")
    \/ PopstateTwo(idx + 1, "forward")

SpecTwo == InitTwo /\ [][NextTwo]_vars

(***************************************************************************)
(* The collapsible section (CollapsibleSection, init, setCollapseState).   *)
(* In a class string "C" stands for the word 'collapsed', "S" for          *)
(* 'scripted' and "k" for 'collapsibleSection'.                            *)
(***************************************************************************)
filterVars == <<parts, joinAttr, list, pushStateAvail, hist, idx, currentFilter,
                checked, hidden, containerHidden, conts>>

Collapsed == <<" ", "C">>     \* ' collapsed'
Scripted == <<" ", "S">>      \* ' scripted'

\* the string of a boolean: '' + b
Str(b) == IF b THEN "true" ELSE "false"

\* s.replace(pat, repl) for a string pattern: the leftmost occurrence is replaced
ReplaceFirst(s, pat, repl) ==
    LET at == {i \in 1..Len(s) : OccursAt(s, pat, i)}
    IN  IF at = {} THEN s
        ELSE SubSeq(s, 1, Min(at) - 1) \o repl \o SubSeq(s, Min(at) + Len(pat), Len(s))

\* this.trigger before init creates the button
NoTrigger ==
    [made |-> FALSE, type |-> "null", ariaControls |-> Null, ariaExpanded |-> "null",
     onclick |-> FALSE, kids |-> <<>>]

\* new CollapsibleSection(element) on the markup of a section
CollapsibleSection(hasHeading, hasContents, contentsId, className, kids) ==
    [hasHeading |-> hasHeading, hasContents |-> hasContents, contentsId |-> contentsId,
     class0 |-> className, kids0 |-> kids,
     className |-> className, headingKids |-> kids, ariaHidden |-> "null",
     collapsed |-> FALSE, trigger |-> NoTrigger]

\* a variant that never lowers the collapsed flag
setCollapseStateFlagUp(sec, doCollapse) ==
    [sec EXCEPT
        !.className = IF doCollapse THEN @ \o Collapsed
                      ELSE ReplaceFirst(@, Collapsed, Empty),
        !.trigger.ariaExpanded = Str(~doCollapse),
        !.ariaHidden = Str(doCollapse),
        !.collapsed = TRUE]

\* setCollapseState(doCollapse) on the section
setCollapseState(sec, doCollapse) ==
    [sec EXCEPT
        !.className = IF doCollapse THEN @ \o Collapsed
                      ELSE ReplaceFirst(@, Collapsed, Empty),
        !.trigger.ariaExpanded = Str(~doCollapse),
        !.ariaHidden = Str(doCollapse),
        !.collapsed = doCollapse]

\* the button init creates, before it is put into the heading
NewTrigger == [NoTrigger EXCEPT !.made = TRUE, !.type = "button"]

\* a variant of init without the test for a missing heading or contents
initUnguarded(sec) ==
    IF ~sec.hasHeading \/ ~sec.hasContents \/ sec.contentsId = Null
    THEN [sec |-> [sec EXCEPT !.trigger = NewTrigger], threw |-> TRUE]
    ELSE LET trigger == [NewTrigger EXCEPT
                            !.ariaControls = IF Len(sec.contentsId) > 0
                                             THEN sec.contentsId ELSE Null,
                            !.onclick = TRUE,
                            !.kids = sec.headingKids]
             wrapped == [sec EXCEPT !.trigger = trigger, !.headingKids = <<"button">>]
             collapsed == setCollapseState(wrapped, TRUE)
         IN  [sec |-> [collapsed EXCEPT !.className = @ \o Scripted], threw |-> FALSE]

\* init(): the section after it, and whether it threw (contentsId.length
\* of a contents element without an id attribute is a TypeError)
init(sec) ==
    IF ~sec.hasHeading \/ ~sec.hasContents
    THEN [sec |-> sec, threw |-> FALSE]
    ELSE IF sec.contentsId = Null
         THEN [sec |-> [sec EXCEPT !.trigger = NewTrigger], threw |-> TRUE]
         ELSE LET trigger == [NewTrigger EXCEPT
                                 !.ariaControls = IF Len(sec.contentsId) > 0
                                                  THEN sec.contentsId ELSE Null,
                                 !.onclick = TRUE,
                                 !.kids = sec.headingKids]
                  wrapped == [sec EXCEPT !.trigger = trigger,
                                         !.headingKids = <<"button">>]
                  collapsed == setCollapseState(wrapped, TRUE)
              IN  [sec |-> [collapsed EXCEPT !.className = @ \o Scripted],
                   threw |-> FALSE]

\* the loop over the sections from section i on: an exception ends the script
RECURSIVE InitSectionsFrom(_, _)
InitSectionsFrom(ss, i) ==
    IF i > Len(ss) THEN [secs |-> ss, threwAt |-> 0]
    ELSE LET r == init(ss[i])
         IN  IF r.threw
             THEN [secs |-> [ss EXCEPT ![i] = r.sec], threwAt |-> i]
             ELSE InitSectionsFrom([ss EXCEPT ![i] = r.sec], i + 1)

\* the trigger's onclick
onclick(sec) == setCollapseState(sec, ~sec.collapsed)

(***************************************************************************)
(* The pages with collapsible sections.                                    *)
(***************************************************************************)
SectionKids == <<"t", "u">>

SectionClasses == {<<"k">>, <<"k", " ", "C">>}

SectionIds == {Null, Empty, <<"i">>}

SectionMarkups ==
    {CollapsibleSection(h, c, IF c THEN id ELSE Null, cn, IF h THEN SectionKids ELSE <<>>) :
        h \in BOOLEAN, c \in BOOLEAN, id \in SectionIds, cn \in SectionClasses}

\* what is seen of a section: the 'collapsed' class, the ARIA attributes, the flag
HasClass(className, word) ==
    \E i \in 1..Len(className) :
        /\ OccursAt(className, word, i)
        /\ i = 1 \/ className[i - 1] = " "
        /\ i + Len(word) > Len(className) \/ className[i + Len(word)] = " "

View(sec) ==
    [collapsedClass |-> HasClass(sec.className, <<"C">>),
     ariaExpanded |-> sec.trigger.ariaExpanded,
     ariaHidden |-> sec.ariaHidden,
     collapsed |-> sec.collapsed]

InitCollapse ==
    /\ parts = <<>>
    /\ joinAttr = "absent"
    /\ list = <<>>
    /\ pushStateAvail = TRUE
    /\ hist = <<Empty>>
    /\ idx = 1
    /\ currentFilter = <<>>
    /\ checked = <<>>
    /\ hidden = <<>>
    /\ containerHidden = FALSE
    /\ conts = <<>>
    /\ secs \in {ss \in SeqsUpTo(SectionMarkups, MaxSecs) : Len(ss) > 0}
    /\ pc = "load"
    /\ ev = [op |-> "none", part |-> 0, streak |-> 0, was |-> <<>>]

\* the script runs: every section is constructed and initialised in turn
RunCollapsible ==
    /\ pc = "load"
    /\ LET r == InitSectionsFrom(secs, 1)
       IN  /\ secs' = r.secs
           /\ ev' = [op |-> "script", part |-> r.threwAt, streak |-> 0, was |-> <<>>]
    /\ pc' = "ready"
    /\ UNCHANGED filterVars

\* the user clicks the trigger of section s
Click(s) ==
    /\ pc = "ready"
    /\ secs[s].trigger.onclick
    /\ secs[s].headingKids = <<"button">>
    /\ secs' = [secs EXCEPT ![s] = onclick(secs[s])]
    /\ ev' = [op |-> "click", part |-> s, streak |-> 0,
              was |-> IF ev.op = "click" /\ ev.part = s
                      THEN <<ev.was[Len(ev.was)], View(secs[s])>>
                      ELSE <<View(secs[s])>>]
    /\ UNCHANGED <<filterVars, pc>>

NextCollapse ==
    \/ RunCollapsible
    \/ \E s \in 1..Len(secs) : Click(s)

SpecCollapse == InitCollapse /\ [][NextCollapse]_vars

\* setCollapseState(v) is called on section s
SetState(s, v) ==
    /\ pc = "ready"
    /\ secs[s].trigger.onclick
    /\ Len(secs[s].className) <= MaxClassLen
    /\ secs' = [secs EXCEPT ![s] = setCollapseState(secs[s], v)]
    /\ ev' = [op |-> "set", part |-> s, streak |-> 0, was |-> <<v>>]
    /\ UNCHANGED <<filterVars, pc>>

NextSetState ==
    \/ RunCollapsible
    \/ \E s \in 1..Len(secs) : \E v \in BOOLEAN : SetState(s, v)

SpecSetState == InitCollapse /\ [][NextSetState]_vars

(***************************************************************************)
(* The jQuery variant of the collapsible section (part_000).  Methods on   *)
(* an empty jQuery set do nothing; attr() of a missing attribute or of an  *)
(* empty set is undefined.                                                 *)
(***************************************************************************)
\* what attr() gives for a missing attribute
Undefined == <<"undefined">>

\* the words of a class string
RECURSIVE Words(_)
Words(s) ==
    LET sp == {i \in 1..Len(s) : s[i] = " "}
    IN  IF s = <<>> THEN <<>>
        ELSE IF sp = {} THEN <<s>>
        ELSE (IF Min(sp) = 1 THEN <<>> ELSE <<SubSeq(s, 1, Min(sp) - 1)>>)
                \o Words(SubSeq(s, Min(sp) + 1, Len(s)))

RECURSIVE JoinWords(_)
JoinWords(ws) ==
    IF Len(ws) = 0 THEN <<>>
    ELSE IF Len(ws) = 1 THEN ws[1]
    ELSE ws[1] \o <<" ">> \o JoinWords(Tail(ws))

\* $(element).addClass(word)
addClass(className, word) ==
    IF \E i \in 1..Len(Words(className)) : Words(className)[i] = word
    THEN className
    ELSE JoinWords(Append(Words(className), word))

\* $(element).removeClass(word)
removeClass(className, word) ==
    IF \E i \in 1..Len(Words(className)) : Words(className)[i] = word
    THEN JoinWords(SelectSeq(Words(className), LAMBDA w : w # word))
    ELSE className

\* setCollapseState(doCollapse) of the jQuery variant
jqSetCollapseState(sec, doCollapse) ==
    [sec EXCEPT
        !.className = IF doCollapse THEN addClass(@, <<"C">>) ELSE removeClass(@, <<"C">>),
        !.trigger.ariaExpanded = IF sec.trigger.made THEN Str(~doCollapse) ELSE @,
        !.ariaHidden = IF sec.hasContents THEN Str(doCollapse) ELSE @,
        !.collapsed = doCollapse]

\* init() of the jQuery variant: no test for a missing heading or contents
jqInit(sec) ==
    LET contentsId == IF sec.hasContents /\ sec.contentsId # Null
                      THEN sec.contentsId ELSE Undefined
        trigger == [NewTrigger EXCEPT
                       !.ariaControls = IF contentsId # Undefined /\ Len(contentsId) > 0
                                        THEN contentsId ELSE Null,
                       !.onclick = TRUE,
                       !.kids = sec.headingKids]
        wrapped == IF sec.hasHeading
                   THEN [sec EXCEPT !.trigger = trigger, !.headingKids = <<"button">>]
                   ELSE sec
        collapsed == jqSetCollapseState(wrapped, TRUE)
    IN  [collapsed EXCEPT !.className = addClass(@, <<"S">>)]

\* the script of the jQuery variant runs: each() over the sections
RunJqCollapsible ==
    /\ pc = "load"
    /\ secs' = [s \in 1..Len(secs) |-> jqInit(secs[s])]
    /\ ev' = [op |-> "script", part |-> 0, streak |-> 0, was |-> <<>>]
    /\ pc' = "ready"
    /\ UNCHANGED filterVars

\* the user clicks the trigger of section s
jqClick(s) ==
    /\ pc = "ready"
    /\ secs[s].trigger.onclick
    /\ secs' = [secs EXCEPT ![s] = jqSetCollapseState(secs[s], ~secs[s].collapsed)]
    /\ ev' = [op |-> "click", part |-> s, streak |-> 0, was |-> <<>>]
    /\ UNCHANGED <<filterVars, pc>>

NextJqCollapse ==
    \/ RunJqCollapsible
    \/ \E s \in 1..Len(secs) : jqClick(s)

SpecJqCollapse == InitCollapse /\ [][NextJqCollapse]_vars

(***************************************************************************)
(* The jQuery variant of the filter (filter_jquery.js): its                *)
(* updateListFromFilter and updateFilterPartFromUrl.  hidden[i] stands for *)
(* an item that hide() has taken out of the display.                       *)
(***************************************************************************)
\* $item.attr('data-filter-' + key)
jqAttr(item, key) ==
    IF key \in DOMAIN item.attrs THEN item.attrs[key] ELSE Undefined

\* a variant of the test that takes '*' for a wildcard
jqMismatchStar(itemValue, wantedValue) ==
    Len(wantedValue) > 0 /\ itemValue # wantedValue /\ wantedValue # Star

\* the test that hides the item
jqMismatch(itemValue, wantedValue) ==
    Len(wantedValue) > 0 /\ itemValue # wantedValue

\* the for (key in filter) loop from entry i on: whether it hides the item
RECURSIVE jqHidesFrom(_, _, _)
jqHidesFrom(item, filter, i) ==
    IF i > Len(filter) THEN FALSE
    ELSE IF jqMismatch(jqAttr(item, filter[i].k), filter[i].v) THEN TRUE
    ELSE jqHidesFrom(item, filter, i + 1)

\* updateListFromFilter($list, filter): children() are the element nodes;
\* all are shown, then the mismatching ones hidden
jqUpdateListFromFilter(children, hid, filter) ==
    [i \in 1..Len(children) |->
        IF children[i].element THEN jqHidesFrom(children[i], filter, 1) ELSE hid[i]]

\* updateFilterPartFromUrl(filter, key): the patterns are those of the
\* plain-DOM reader, the value without a match is ''
jqUpdateFilterPartFromUrl(filter, key, hash) ==
    FilterSet(filter, key, NewFilterValue(hash, key, Empty))

jqListNodes ==
    {TextNode} \cup {Element(m) : m \in AttrMaps({KeyA, KeyB}, {ValX, Star})}

\* either an input of updateListFromFilter or an input of updateFilterPartFromUrl
InitJq ==
    /\ joinAttr \in {"or", "absent"}
    /\ pushStateAvail = TRUE
    /\ idx = 1
    /\ checked = <<>>
    /\ containerHidden = FALSE
    /\ ev = NoEvent
    /\ secs = <<>>
    /\ conts = <<>>
    /\ \/ /\ pc = "jqList"
          /\ parts = <<>>
          /\ list \in SeqsUpTo(jqListNodes, MaxItems)
          /\ currentFilter \in FilterObjects
          /\ hidden \in {[i \in 1..Len(list) |-> b] : b \in BOOLEAN}
          /\ hist = <<Empty>>
       \/ /\ pc = "jqUrl"
          /\ list = <<>>
          /\ hidden = <<>>
          /\ \E key \in UrlKeys, value \in FilterValues :
                /\ parts = <<Part(key, FALSE, Empty, <<>>)>>
                /\ currentFilter = <<[k |-> key, v |-> value]>>
          /\ \E hash \in UrlHashes : hist = <<hash>>

\* updateListFromFilter($list, filter) on the drawn input
jqApplyFilter ==
    /\ pc = "jqList"
    /\ hidden' = jqUpdateListFromFilter(list, hidden, currentFilter)
    /\ pc' = "jqApplied"
    /\ UNCHANGED <<markup, hist, idx, currentFilter, checked, containerHidden, ev, secs, conts>>

\* updateFilterPartFromUrl(filter, key) on the drawn input
jqDecodeUrl ==
    /\ pc = "jqUrl"
    /\ currentFilter' = jqUpdateFilterPartFromUrl(currentFilter, parts[1].name, hist[idx])
    /\ pc' = "jqDecoded"
    /\ UNCHANGED <<markup, hist, idx, checked, hidden, containerHidden, ev, secs, conts>>

NextJq == jqApplyFilter \/ jqDecodeUrl

SpecJq == InitJq /\ [][NextJq]_vars

(***************************************************************************)
(* The URL functions, checked under SpecUrl.                               *)
(***************************************************************************)
HasSemicolon(s) == \E i \in 1..Len(s) : s[i] = ";"

\* the segments of s, which are separated by ';'
RECURSIVE Split(_)
Split(s) ==
    IF ~HasSemicolon(s) THEN <<s>>
    ELSE LET q == RunEnd(s, 1)
         IN  <<SubSeq(s, 1, q - 1)>> \o Split(SubSeq(s, q + 1, Len(s)))

\* the segments joined by ';'
RECURSIVE Join(_)
Join(segs) ==
    IF Len(segs) = 0 THEN Empty
    ELSE IF Len(segs) = 1 THEN segs[1]
    ELSE segs[1] \o <<";">> \o Join(Tail(segs))

HasEquals(s) == \E i \in 1..Len(s) : s[i] = "="

\* the key of a segment 'k=v': what precedes its first '='
SegKey(seg) ==
    SubSeq(seg, 1, Min({i \in 1..Len(seg) : seg[i] = "="}) - 1)

\* the value of a segment 'k=v': what follows its first '='
SegValue(seg) ==
    SubSeq(seg, Min({i \in 1..Len(seg) : seg[i] = "="}) + 1, Len(seg))

\* the segments of a fragment '#!k1=v1;k2=v2;...', none for the empty fragment
Segments(hash) ==
    IF hash = Empty THEN <<>> ELSE Split(SubSeq(hash, 3, Len(hash)))

\* a fragment of the form '#!k1=v1;k2=v2;...', or the empty fragment
WellFormed(hash) ==
    \/ hash = Empty
    \/ /\ Len(hash) >= 3
       /\ OccursAt(hash, HashBang, 1)
       /\ \A j \in 1..Len(Segments(hash)) :
             HasEquals(Segments(hash)[j]) /\ SegKey(Segments(hash)[j]) # Empty

\* the segments with the first segment of key replaced, or with one appended
SegmentsAfterWrite(segs, key, value) ==
    LET own == {j \in 1..Len(segs) : SegKey(segs[j]) = key}
        new == key \o <<"=">> \o value
    IN  IF own = {} THEN Append(segs, new)
        ELSE [j \in 1..Len(segs) |-> IF j = Min(own) THEN new ELSE segs[j]]

\* C4 as stated: with history.pushState available, for every key, fragment
\* and value without ';' (the empty string included), updateUrlFromFilterPart
\* followed by updateFilterPartFromUrl leaves filter[key] equal to the value
\* encoded, whatever the default value.
C4_UrlRoundTrip ==
    [][(/\ pc = "encoded"
        /\ pc' = "decoded"
        /\ pushStateAvail
        /\ ~HasSemicolon(FilterGet(currentFilter, parts[1].name)))
       => FilterGet(currentFilter', parts[1].name)
              = FilterGet(currentFilter, parts[1].name)]_vars

\* C5 as stated: writing key K into a fragment '#!k1=v1;k2=v2;...' keeps
\* every segment of another key, replaces K's own segment in place if there
\* is one and appends 'K=value' after a ';' otherwise (with no ';' when the
\* fragment was empty).
C5_WritePreservesOtherKeys ==
    [][(/\ pc = "input"
        /\ pc' = "encoded"
        /\ pushStateAvail
        /\ WellFormed(hist[idx])
        /\ ~HasSemicolon(FilterGet(currentFilter, parts[1].name)))
       => hist'[idx'] =
              HashBang \o Join(SegmentsAfterWrite(Segments(hist[idx]), parts[1].name,
                                   FilterGet(currentFilter, parts[1].name)))]_vars

(***************************************************************************)
(* The filter application, checked under SpecList.                         *)
(***************************************************************************)
Elements == {i \in 1..Len(list) : list[i].element}

Entries == 1..Len(currentFilter)

Wanted(n) == currentFilter[n].v

Declared(i, n) == ItemValue(list[i], currentFilter[n].k)

\* the filter without its entry for key
FilterWithout(filter, key) == SelectSeq(filter, LAMBDA e : e.k # key)

C10_EmptyValueMatchesAnyItem ==
    (pc = "applied" /\ joinAttr # "or") =>
        \A i \in Elements :
            (~hidden[i]) <=>
                \A n \in Entries :
                    \/ Wanted(n) = Empty
                    \/ Wanted(n) = Star
                    \/ Wanted(n) = Declared(i, n)

(***************************************************************************)
(* The page, checked under Spec.                                           *)
(***************************************************************************)
\* the value of the first 'key=' segment of a fragment that starts with
\* '#!', and the default value when there is no such segment
SegmentValueOrDefault(hash, key, defaultValue) ==
    LET segs == IF Len(hash) >= 2 /\ OccursAt(hash, HashBang, 1)
                THEN Segments(hash) ELSE <<>>
        own == {j \in 1..Len(segs) : HasEquals(segs[j]) /\ SegKey(segs[j]) = key}
    IN  IF own = {} THEN defaultValue ELSE SegValue(segs[Min(own)])

\* the mapping a fragment stands for: one entry per declared key
DecodedFilter(hash) ==
    [p \in 1..Len(parts) |->
        [k |-> parts[p].name,
         v |-> SegmentValueOrDefault(hash, parts[p].name, DefaultValue(parts[p]))]]

\* every control of every part is on exactly when its data-filter is the
\* value the fragment gives its key
ControlsReflect(hash) ==
    \A p \in 1..Len(parts) : \A c \in 1..Len(parts[p].controls) :
        checked[p][c] <=>
            parts[p].controls[c].filter =
                SegmentValueOrDefault(hash, parts[p].name, DefaultValue(parts[p]))

\* currentFilter has the value the fragment gives each declared key
FilterReflects(hash) ==
    \A p \in 1..Len(parts) :
        FilterGet(currentFilter, parts[p].name) =
            SegmentValueOrDefault(hash, parts[p].name, DefaultValue(parts[p]))

\* C6 as stated: after setup and two successive change events that each
\* pushed a history entry, the popstate of navigating back leaves every
\* declared key with the value decoded from the fragment of the entry that
\* is now current (its default when the key is not in it), every control on
\* exactly when its data-filter is that value, and the list filtered by
\* that mapping.
C6_BackRestoresFilterOfEntry ==
    (pc = "ready" /\ ev.op = "back" /\ ev.streak = 2 /\ pushStateAvail) =>
        /\ FilterReflects(hist[idx])
        /\ ControlsReflect(hist[idx])
        /\ hidden = updateListFromFilter(list, hidden, DecodedFilter(hist[idx]),
                                         JoinType(joinAttr))

\* C7: once the container is set up, through any change and popstate
\* events, currentFilter has exactly one entry for each key declared by a
\* part and none for any other key, also when no control of a part is on.
C7_OneEntryPerDeclaredKey ==
    pc = "ready" =>
        /\ FilterKeys(currentFilter) = {parts[p].name : p \in 1..Len(parts)}
        /\ \A i, j \in 1..Len(currentFilter) :
              currentFilter[i].k = currentFilter[j].k => i = j

C7_Witness ==
    /\ pc = "ready"
    /\ ev.op = "change"
    /\ Len(parts) = 2
    /\ \A c \in 1..Len(parts[ev.part].controls) : ~checked[ev.part][c]
    /\ FilterGet(currentFilter, parts[ev.part].name) = Empty

\* C8 as stated: after setup currentFilter[filterName] is the value of the
\* 'filterName=' segment of the fragment when the fragment starts with '#!'
\* and has such a segment, and the part's data-filter-default ("*" when
\* absent) otherwise; every control is on exactly when its data-filter is
\* that value, and the container has no 'hidden' attribute.
C8_SetupReadsFragmentOrDefault ==
    (pc = "ready" /\ ev.op = "setup") =>
        /\ FilterReflects(hist[idx])
        /\ ControlsReflect(hist[idx])
        /\ ~containerHidden

\* the controls of part p that are on, and its unchecked inputs with data-filter-off
OnControls(chk, p) ==
    {c \in 1..Len(parts[p].controls) : IsOn(parts[p].controls[c], chk[p][c])}

OffControls(chk, p) ==
    {c \in 1..Len(parts[p].controls) :
        /\ parts[p].controls[c].tag = "INPUT"
        /\ ~chk[p][c]
        /\ parts[p].controls[c].hasOff}

\* what the claim gives the key of part p for the control states chk
ReadsControls(chk, p, value) ==
    IF OnControls(chk, p) # {}
    THEN value \in {parts[p].controls[c].filter : c \in OnControls(chk, p)}
    ELSE IF OffControls(chk, p) # {}
         THEN value \in {parts[p].controls[c].off : c \in OffControls(chk, p)}
         ELSE value = Empty

\* C9 as stated: after a change event on a part, currentFilter[filterName]
\* is the data-filter of the control of the part that is checked/selected
\* if there is one, otherwise the data-filter-off of an unchecked checkbox
\* that bears one, otherwise the empty string; the other keys keep their
\* values.
C9_ChangeReadsControls ==
    [][ev'.op = "change" =>
        /\ ReadsControls(checked', ev'.part, FilterGet(currentFilter', parts[ev'.part].name))
        /\ \A q \in 1..Len(parts) : q # ev'.part =>
              FilterGet(currentFilter', parts[q].name)
                  = FilterGet(currentFilter, parts[q].name)]_vars

\* the largest element of a set of numbers
Max(S) == CHOOSE x \in S : \A y \in S : y <= x

\* what the controls of part p give its key: the value of the last control,
\* in document order, that is on or is an unchecked input with
\* data-filter-off, and the empty string when there is none
ControlsGive(chk, p) ==
    LET giving == OnControls(chk, p) \cup OffControls(chk, p)
    IN  IF giving = {} THEN Empty
        ELSE IF Max(giving) \in OnControls(chk, p)
             THEN parts[p].controls[Max(giving)].filter
             ELSE parts[p].controls[Max(giving)].off

\* whether the filter lets an item through, by the join type
Passes(filter, item, joinType) ==
    IF joinType = "or"
    THEN \E n \in 1..Len(filter) :
            filter[n].v = Star \/ filter[n].v = ItemValue(item, filter[n].k)
    ELSE \A n \in 1..Len(filter) :
            filter[n].v = Star \/ filter[n].v = ItemValue(item, filter[n].k)

\* the list shows exactly the items the filter lets through
ListReflects(children, hid, filter, joinType) ==
    \A i \in 1..Len(children) :
        children[i].element => (hid[i] <=> ~Passes(filter, children[i], joinType))

\* C12: without history.pushState a change event leaves the fragment and
\* the history as they were, while currentFilter[filterName] is recomputed
\* from the controls and the list is filtered by the updated mapping.
C12_ChangeWithoutPushState ==
    [][(ev'.op = "change" /\ ~pushStateAvail) =>
        /\ hist' = hist
        /\ idx' = idx
        /\ pc' = "ready"
        /\ FilterGet(currentFilter', parts[ev'.part].name) = ControlsGive(checked', ev'.part)
        /\ ListReflects(list, hidden', currentFilter', JoinType(joinAttr))]_vars

C12_Witness ==
    /\ pc = "ready"
    /\ ev.op = "change"
    /\ ~pushStateAvail
    /\ hist = <<Empty>>
    /\ FilterGet(currentFilter, parts[ev.part].name) = ValY
    /\ \E i, j \in Elements : hidden[i] /\ ~hidden[j]

C18_ListReflectsCurrentFilter ==
    pc = "ready" => ListReflects(list, hidden, currentFilter, JoinType(joinAttr))

C18_Witness ==
    /\ pc = "ready"
    /\ ev.op = "back"
    /\ Len(parts) = 2
    /\ \E n \in Entries : Wanted(n) \notin {Star, Empty}
    /\ \E i, j \in Elements : hidden[i] /\ ~hidden[j]

(***************************************************************************)
(* The collapsible section, checked under SpecCollapse and SpecSetState.   *)
(***************************************************************************)
Sections == 1..Len(secs)

HasBoth(s) == secs[s].hasHeading /\ secs[s].hasContents

\* init ran to its end on section s
InitDone(s) == secs[s].trigger.onclick /\ secs[s].headingKids = <<"button">>

Untouched(s) ==
    /\ secs[s].className = secs[s].class0
    /\ secs[s].headingKids = secs[s].kids0
    /\ secs[s].ariaHidden = "null"
    /\ secs[s].trigger = NoTrigger

\* C13: a section lacking its heading or its contents is left as it was:
\* no trigger, no change of class or attribute, no 'scripted' class, and
\* init on it does not throw; when the script has run, every section with
\* heading and contents that the loop reached after it is initialised.
C13_LackingSectionIsSkipped ==
    \A s \in Sections :
        ~HasBoth(s) =>
            /\ Untouched(s)
            /\ ~HasClass(secs[s].className, <<"S">>)
            /\ ev.op = "script" =>
                /\ ev.part # s
                /\ \A t \in Sections :
                    (t > s /\ HasBoth(t) /\ (ev.part = 0 \/ t < ev.part)) =>
                        InitDone(t) /\ HasClass(secs[t].className, <<"S">>)

C13_Witness ==
    /\ ev.op = "script"
    /\ Len(secs) = 2
    /\ ~HasBoth(1)
    /\ Untouched(1)
    /\ InitDone(2)

\* C14: two successive clicks on the trigger of an initialised section
\* return the presence of the 'collapsed' class, aria-expanded, aria-hidden
\* and the collapsed flag to what they were before the two clicks.
C14_TwoClicksRestore ==
    (ev.op = "click" /\ Len(ev.was) = 2) => View(secs[ev.part]) = ev.was[1]

C14_Witness ==
    /\ ev.op = "click"
    /\ Len(ev.was) = 2
    /\ ev.was[1].collapsed
    /\ ~ev.was[2].collapsed
    /\ secs[ev.part].collapsed

\* C15: a second setCollapseState(v) with the same v changes nothing of the
\* section, and after setCollapseState(false) the section is without the
\* 'collapsed' class.
C15_SetCollapseStateIdempotent ==
    [][ev'.op = "set" =>
        /\ (ev.op = "set" /\ ev.part = ev'.part /\ ev.was = ev'.was) =>
                secs'[ev'.part] = secs[ev'.part]
        /\ ev'.was = <<FALSE>> => ~HasClass(secs'[ev'.part].className, <<"C">>)]_vars

\* C19: on a section that init has run on, the 'collapsed' class is there
\* exactly when the flag is true, aria-expanded is the string of the
\* negated flag and aria-hidden the string of the flag; right after init
\* the flag is true and the 'scripted' class is there.
C19_ClassAndAriaFollowFlag ==
    \A s \in Sections :
        InitDone(s) =>
            /\ HasClass(secs[s].className, <<"C">>) <=> secs[s].collapsed
            /\ secs[s].trigger.ariaExpanded = Str(~secs[s].collapsed)
            /\ secs[s].ariaHidden = Str(secs[s].collapsed)
            /\ ev.op = "script" =>
                secs[s].collapsed /\ HasClass(secs[s].className, <<"S">>)

\* C20: on every section with heading and contents, with or without an id on
\* the contents, init runs to its end without an exception: the heading's
\* children are in a new type='button' trigger that is the heading's child,
\* aria-controls is set only for a non-empty id, and the section is
\* collapsed and 'scripted'.
C20_InitNeverThrows ==
    ev.op = "script" =>
        /\ ev.part = 0
        /\ \A s \in Sections :
            HasBoth(s) =>
                /\ secs[s].trigger.made
                /\ secs[s].trigger.type = "button"
                /\ secs[s].trigger.kids = secs[s].kids0
                /\ secs[s].headingKids = <<"button">>
                /\ secs[s].trigger.ariaControls # Null <=>
                        (secs[s].contentsId # Null /\ Len(secs[s].contentsId) > 0)
                /\ secs[s].collapsed
                /\ HasClass(secs[s].className, <<"C">>)
                /\ HasClass(secs[s].className, <<"S">>)

(***************************************************************************)
(* Two filter containers, checked under SpecTwo.                           *)
(***************************************************************************)
\* setupFilter has done nothing to container k
NotSetUp(k) ==
    /\ conts[k].currentFilter = <<>>
    /\ conts[k].containerHidden
    /\ ~conts[k].listening
    /\ \A p \in 1..Len(conts[k].parts) :
        \A c \in 1..Len(conts[k].parts[p].controls) : ~conts[k].checked[p][c]

\* setupFilter has run to its end on container k
IsSetUp(k) ==
    /\ conts[k].listening
    /\ ~conts[k].containerHidden
    /\ \A p \in 1..Len(conts[k].parts) :
        FilterHas(conts[k].currentFilter, conts[k].parts[p].name)
    /\ ListReflects(conts[k].list, conts[k].hidden, conts[k].currentFilter,
                    JoinType(conts[k].joinAttr))

\* C11: when the script has run, no exception was raised, a container whose
\* target list does not exist is as it was before the script, and every
\* container whose list exists is set up.
C11_MissingListIsSkipped ==
    ev.op = "script" =>
        /\ ev.cont = 0
        /\ \A k \in 1..Len(conts) :
            IF conts[k].found THEN IsSetUp(k) ELSE NotSetUp(k)

\* C16: a change event in one container leaves the filter, the control
\* states and the visibility of the list items of every other container
\* as they were.
C16_ChangeLeavesOtherContainer ==
    [][ev'.op = "change" =>
        \A k \in 1..Len(conts) : k # ev'.cont => conts'[k] = conts[k]]_vars

C16_Witness ==
    /\ ev.op = "change"
    /\ ev.cont = 1
    /\ FilterGet(conts[1].currentFilter, KeyA) = ValY
    /\ IsSetUp(2)
    /\ conts[2].found
    /\ FilterGet(conts[2].currentFilter, KeyB) = ValY
    /\ \E i, j \in 1..Len(conts[2].list) : conts[2].hidden[i] /\ ~conts[2].hidden[j]

(***************************************************************************)
(* History writes and history replay, checked under Spec.                  *)
(***************************************************************************)
\* the fragment has a segment 'key=value'
Carries(hash, key, value) ==
    \E j \in 1..Len(Segments(hash)) : Segments(hash)[j] = key \o <<"=">> \o value

\* C21: with history.pushState, a change event pushes exactly one entry
\* after the current one, and its fragment has the segment 'key=value' of
\* the changed key and its new value; setup and a popstate event push no
\* entry and change no fragment.
C21_OnlyChangeWritesHistory ==
    [][/\ (ev'.op = "change" /\ pushStateAvail) =>
            /\ idx' = idx + 1
            /\ Len(hist') = idx + 1
            /\ SubSeq(hist', 1, idx) = SubSeq(hist, 1, idx)
            /\ Carries(hist'[idx'], parts[ev'.part].name,
                       FilterGet(currentFilter', parts[ev'.part].name))
       /\ ev'.op \in {"setup", "back", "forward"} => hist' = hist
       /\ ev'.op = "setup" => idx' = idx]_vars

\* C24: with history.pushState, when the user has navigated back or forward
\* to an entry that a change event created, currentFilter has for every
\* declared key the value it had in memory right after that change event.
C24_ReplayRestoresFilter ==
    (/\ pc = "ready"
     /\ ev.op \in {"back", "forward"}
     /\ pushStateAvail
     /\ ev.mem[idx].byChange) =>
        \A p \in 1..Len(parts) :
            FilterGet(currentFilter, parts[p].name) =
                FilterGet(ev.mem[idx].filter, parts[p].name)

(***************************************************************************)
(* The jQuery variant of the filter, checked under SpecJq.                 *)
(***************************************************************************)
\* the fragment has no segment for the key
KeyAbsent(hash, key) ==
    \/ ~(Len(hash) >= 2 /\ OccursAt(hash, HashBang, 1))
    \/ ~\E j \in 1..Len(Segments(hash)) :
            HasEquals(Segments(hash)[j]) /\ SegKey(Segments(hash)[j]) = key

\* C22: in the jQuery variant, whatever data-filter-join says, an item is in
\* the display exactly when every key with a non-empty wanted value has that
\* value as the item's attribute ('*' is a value like any other); and a key
\* without a segment in the fragment is read as ''.
C22_JqueryEmptyIsWildcard ==
    /\ pc = "jqApplied" =>
        \A i \in Elements :
            ~hidden[i] <=>
                \A n \in Entries :
                    Wanted(n) # Empty =>
                        /\ currentFilter[n].k \in DOMAIN list[i].attrs
                        /\ list[i].attrs[currentFilter[n].k] = Wanted(n)
    /\ (pc = "jqDecoded" /\ KeyAbsent(hist[idx], parts[1].name)) =>
            FilterGet(currentFilter, parts[1].name) = Empty

C22_Witness ==
    /\ pc = "jqApplied"
    /\ joinAttr = "or"
    /\ currentFilter = <<[k |-> KeyA, v |-> Star], [k |-> KeyB, v |-> Empty]>>
    /\ \E i, j \in Elements :
        /\ hidden[i]
        /\ jqAttr(list[i], KeyA) = ValX
        /\ ~hidden[j]
        /\ jqAttr(list[j], KeyA) = Star
        /\ jqAttr(list[j], KeyB) = Undefined

(***************************************************************************)
(* The jQuery variant of the collapsible section, checked under            *)
(* SpecJqCollapse.                                                         *)
(***************************************************************************)
\* C23: in the jQuery variant, when the script has run, a section without
\* a heading or without a contents element has the class string of its
\* markup: init has added neither 'collapsed' nor 'scripted' to it.
C23_JqueryLackingSectionIsSkipped ==
    ev.op = "script" =>
        \A s \in Sections :
            (~secs[s].hasHeading \/ ~secs[s].hasContents) =>
                /\ HasClass(secs[s].className, <<"C">>) = HasClass(secs[s].class0, <<"C">>)
                /\ ~HasClass(secs[s].className, <<"S">>)

====
